---- MODULE Spec2Model ----
(***************************************************************************)
(* A model of the abstract string domains of cwe_checker:                  *)
(*   - BricksDomain / BrickDomain / Brick   (abstract_domain/bricks.rs)    *)
(*   - CharacterInclusionDomain  (abstract_domain/character_inclusion.rs)  *)
(*   - StringLengthDomain        (abstract_domain/string_length.rs)        *)
(*   - State<T>            (analysis/abstract_string/state/mod.rs)         *)
(*                                                                         *)
(* Encoding.  A Rust String is the sequence of its UTF-8 bytes (the        *)
(* strings explored are ASCII text: 1 = 'a', 2 = 'b', ...), so Len is the  *)
(* byte length that String::len() returns and \o is String concatenation.  *)
(* A BTreeSet<String> is a set                                             *)
(* of such sequences; where the code depends on the iteration order of the *)
(* BTreeSet the model iterates in the lexicographic byte order (SortedSeq).*)
(* Rust vectors are 0-based, TLA+ sequences 1-based: index i of the code   *)
(* is index i+1 here.  An enum value is a record with a "tag" field.       *)
(* An abort of the program (a panic of unwrap()/unwrap_value(), or the     *)
(* exhaustion of the stack by a recursion) is the                          *)
(* value Panic / Overflow wherever a function is modelled by an operator,  *)
(* and the control state "panic" / "overflow" in the state machine.        *)
(* A function that the compiler rejects gives no value on any input: its   *)
(* operator is the value NotBuilt.                                         *)
(***************************************************************************)
EXTENDS Integers, Sequences, FiniteSets, TLC

VARIABLES
    pc,          \* control state of the operation under way
    self,        \* normalize: the BricksDomain normalize() is called on
    lookup,      \* normalize: the vector `lookup`
    normalized,  \* normalize: the vector `normalized`
    rule,        \* normalize: the rule applied by the last scan (0: none)
    scanned,     \* normalize: the lists the loop of this call has scanned (history)
    pass,        \* normalize: 1 = normalize(x), 2 = normalize(normalize(x))
    first,       \* normalize: the value returned by the first call
    dom,         \* merge: the domain the operands belong to
    a, b, c,     \* merge: the operands
    ab, ba, aa,  \* merge: merge(a,b), merge(b,a), merge(a,a)
    bc,          \* merge: merge(b,c)
    ab_c, a_bc,  \* merge: merge(merge(a,b),c), merge(a,merge(b,c))
    arg,         \* a single call: the arguments of the function called;
                 \* a sequence of operations: the last operation
    out          \* a single call: what the call returned, or its fault;
                 \* a sequence of operations: the value they have yielded

vars == <<pc, self, lookup, normalized, rule, scanned, pass, first,
          dom, a, b, c, ab, ba, aa, bc, ab_c, a_bc, arg, out>>

normVars == <<self, lookup, normalized, rule, scanned, pass, first>>
mergeVars == <<dom, a, b, c, ab, ba, aa, bc, ab_c, a_bc>>
callVars == <<arg, out>>

(***************************************************************************)
(* Values                                                                  *)
(***************************************************************************)
\* BrickDomain::Top and BricksDomain::Top
Top == [tag |-> "Top"]
\* BrickDomain::Value(brick) and BricksDomain::Value(list)
Value(v) == [tag |-> "Value", v |-> v]
\* struct Brick { sequence, min, max }
Brick(sequence, min, max) == [sequence |-> sequence, min |-> min, max |-> max]
\* The outcome of a call that panics (unwrap on None, unwrap_value on Top).
Panic == [tag |-> "Panic"]
\* The outcome of a call whose recursion never returns.
Overflow == [tag |-> "Overflow"]
\* The outcome of a call that returns v, where the call may also abort.
Ok(v) == [tag |-> "Ok", v |-> v]
\* No value (a variable the running operation does not use).
None == [tag |-> "None"]

\* The outcome of a call of a function that rustc rejects (the crate is not
\* built, the call gives no value).
NotBuilt == [tag |-> "NotBuilt"]

IsFault(x) == x.tag \in {"Panic", "Overflow", "NotBuilt"}

\* AbstractDomain::is_top for BrickDomain and BricksDomain
is_top(d) == d.tag = "Top"

\* BrickDomain::get_empty_brick
get_empty_brick == Value(Brick({}, 0, 0))

Max2(x, y) == IF x >= y THEN x ELSE y

(***************************************************************************)
(* Strings and the order of BTreeSet<String>                               *)
(***************************************************************************)
\* s < t in the byte-wise lexicographic order of String (Ord for str).
RECURSIVE LexLt(_, _)
LexLt(s, t) ==
    IF t = <<>> THEN FALSE
    ELSE IF s = <<>> THEN TRUE
    ELSE IF Head(s) # Head(t) THEN Head(s) < Head(t)
    ELSE LexLt(Tail(s), Tail(t))

\* The elements of a BTreeSet<String> in iteration order.
RECURSIVE SortedSeq(_)
SortedSeq(S) ==
    IF S = {} THEN <<>>
    ELSE LET m == CHOOSE x \in S : \A y \in S \ {x} : LexLt(x, y)
         IN <<m>> \o SortedSeq(S \ {m})

\* The set of the elements of a vector (collect() into a BTreeSet).
Range(q) == {q[i] : i \in 1..Len(q)}

(***************************************************************************)
(* u32, the type of Brick::min and Brick::max.  The integers of TLC have   *)
(* 32 bits with a sign, so a u32 below 2^31 is written as itself and a u32 *)
(* v >= 2^31 as the negative number v - 2^32 (the same 32 bits).           *)
(***************************************************************************)
\* 2^31 - 1, the largest u32 written as itself.
I32_MAX == 2147483647
\* u32::MAX = 2^32 - 1, written as 2^32 - 1 - 2^32.
U32_MAX == 0 - 1

\* x < y on u32
u32_lt(x, y) == IF (x >= 0) <=> (y >= 0) THEN x < y ELSE x >= 0
\* std::cmp::min and std::cmp::max on u32
u32_min(x, y) == IF u32_lt(y, x) THEN y ELSE x
u32_max(x, y) == IF u32_lt(x, y) THEN y ELSE x

\* x + y does not fit in a u32.
u32_add_overflows(x, y) ==
    IF x >= 0 /\ y >= 0 THEN FALSE
    ELSE IF x < 0 /\ y < 0 THEN TRUE
    ELSE x + y >= 0

\* x + y modulo 2^32 (the 32 bits of the sum)
u32_wrapping_add(x, y) ==
    IF x >= 0 /\ y >= 0
    THEN IF x <= I32_MAX - y THEN x + y
         ELSE (((x - I32_MAX) - 1) + y) - I32_MAX - 1
    ELSE IF x < 0 /\ y < 0
    THEN IF (x + I32_MAX) + 1 <= I32_MAX - ((y + I32_MAX) + 1)
         THEN ((x + I32_MAX) + 1) + ((y + I32_MAX) + 1)
         ELSE x + y
    ELSE x + y

\* x + y on u32: the sum, or when it does not fit, a panic in a build with
\* overflow checks and the sum modulo 2^32 in a build without.
u32_add(x, y, overflow_checks) ==
    IF u32_add_overflows(x, y) /\ overflow_checks THEN Panic
    ELSE Ok(u32_wrapping_add(x, y))

\* x - y modulo 2^32 (the 32 bits of the difference)
u32_wrapping_sub(x, y) ==
    IF (x >= 0) <=> (y >= 0) THEN x - y
    ELSE LET e == IF x < 0 THEN ((x + I32_MAX) + 1) - y
                  ELSE ((x - I32_MAX) - 1) - y
         IN IF e >= 0 THEN (e - I32_MAX) - 1 ELSE (e + I32_MAX) + 1

\* x - y on u32: the difference, or when x < y, a panic in a build with
\* overflow checks and the difference modulo 2^32 in a build without.
u32_sub(x, y, overflow_checks) ==
    IF u32_lt(x, y) /\ overflow_checks THEN Panic
    ELSE Ok(u32_wrapping_sub(x, y))

\* len < length on usize, `length` being a u32 cast with `as usize` (which
\* keeps its value; 2^31 and more are written as negative numbers, length
\* standing for length + 2^32) and len the byte length of a string.  For a
\* negative `length` both sides are compared 2^31 lower.
usize_lt(len, length) ==
    IF length < 0 THEN (len - I32_MAX) - 1 < (length + I32_MAX) + 1
    ELSE len < length

(***************************************************************************)
(* Brick                                                                   *)
(***************************************************************************)
\* Brick::is_empty_string
is_empty_string(brick) ==
    brick.sequence = {} /\ brick.min = 0 /\ brick.max = 0

\* Brick::merge_bricks_with_bound_one
merge_bricks_with_bound_one(brick, other) ==
    Brick({s1 \o s2 : s1 \in brick.sequence, s2 \in other.sequence}, 1, 1)

\* Brick::merge_bricks_with_equal_content: Ok(brick), or Panic
merge_bricks_with_equal_content(brick, other, overflow_checks) ==
    LET min == u32_add(brick.min, other.min, overflow_checks)
        max == u32_add(brick.max, other.max, overflow_checks)
    IN IF IsFault(min) \/ IsFault(max) THEN Panic
       ELSE Ok(Brick(brick.sequence, min.v, max.v))

\* One pass of the outer loop of generate_permutations_of_fixed_length over
\* the sorted sequence `ss`: the vector new_gen.
RECURSIVE NewGen(_, _)
NewGen(ss, generated) ==
    IF ss = <<>> THEN <<>>
    ELSE (IF generated = <<>>
          THEN <<Head(ss)>>
          ELSE [i \in 1..Len(generated) |-> generated[i] \o Head(ss)])
         \o NewGen(Tail(ss), generated)

\* The room on the stack when generate_permutations_of_fixed_length is
\* called.  The source sets no limit on the recursion: how many nested calls
\* the stack holds depends on the platform, the build and the run.  Frames(n)
\* is a stack that holds n nested calls, Unbounded one that holds every
\* recursion that ends.
Frames(n) == [tag |-> "Frames", n |-> n]
Unbounded == [tag |-> "Unbounded"]

\* The stack after one more call
pushed(stack) ==
    IF stack.tag = "Unbounded" THEN stack ELSE Frames(stack.n - 1)

\* len + calls * step >= length on usize, for len < length, step >= 1 and
\* calls >= 0: `calls` more strings of `step` bytes make a string of `len`
\* bytes reach `length`.  `length` is a u32 cast with `as usize` (2^31 and
\* more written as negative numbers); no intermediate value leaves the
\* integers of the model checker.
usize_reaches(len, step, calls, length) ==
    IF length >= 0
    THEN calls >= (((length - len) - 1) \div step) + 1
    ELSE LET A == I32_MAX - len
             r == (length + I32_MAX) + 1
             carry == IF (A % step) >= step - (r % step) THEN 1 ELSE 0
         IN IF (A \div step) > calls THEN FALSE
            ELSE (calls - (A \div step)) - (r \div step) >= carry + 1

\* The recursion that goes on from a first element of `len` bytes, each call
\* adding `step` bytes to it, returns before the stack is used up.
returns_within(len, step, stack, length) ==
    IF step = 0 THEN FALSE
    ELSE IF stack.tag = "Unbounded" THEN TRUE
    ELSE usize_reaches(len, step, stack.n - 1, length)

\* Brick::generate_permutations_of_fixed_length, called with the room `stack`.
\* The result is Ok(new_gen), or Panic when new_gen.get(0) is None (the
\* sequence is empty), or Overflow when the recursion uses up the stack.  The
\* comparison of line 356 is on the byte length of the first element of
\* new_gen, which is the first element of `generated` followed by the first
\* string of the sequence: each nested call adds the bytes of that string, so
\* the recursion returns within the stack iff the calls that are left make
\* the element reach `length`, and on no stack when that string is empty.
RECURSIVE generate_permutations_of_fixed_length(_, _, _, _)
generate_permutations_of_fixed_length(length, sequence, generated, stack) ==
    LET new_gen == NewGen(SortedSeq(sequence), generated)
        step == Len(Head(SortedSeq(sequence)))
    IN IF stack = Frames(0) THEN Overflow
       ELSE IF new_gen = <<>> THEN Panic
       ELSE IF usize_lt(Len(new_gen[1]), length)
            THEN IF ~returns_within(Len(new_gen[1]), step, stack, length)
                 THEN Overflow
                 ELSE generate_permutations_of_fixed_length(length, sequence,
                                                            new_gen, pushed(stack))
            ELSE Ok(new_gen)

\* Brick::transform_brick_with_min_max_equal
transform_brick_with_min_max_equal(brick, length, stack) ==
    LET permutations ==
            generate_permutations_of_fixed_length(length, brick.sequence, <<>>, stack)
    IN IF IsFault(permutations) THEN permutations
       ELSE Ok(Brick(Range(permutations.v), 1, 1))

\* Brick::break_single_brick_into_simpler_bricks: Ok of the pair (brick_1,
\* brick_2), or the fault of the flattening, or the panic of the subtraction
break_single_brick_into_simpler_bricks(brick, overflow_checks, stack) ==
    LET brick_1 == transform_brick_with_min_max_equal(brick, brick.min, stack)
        max == u32_sub(brick.max, brick.min, overflow_checks)
    IN IF IsFault(brick_1) THEN brick_1
       ELSE IF IsFault(max) THEN max
       ELSE Ok(<<brick_1.v, Brick(brick.sequence, 0, max.v)>>)

\* The stacks a call runs on.  Every stack holds at least MinStackDepth nested
\* calls of generate_permutations_of_fixed_length, and nothing bounds it from
\* above.  A call that overflows a stack overflows every smaller one, so the
\* outcomes over all stacks are those of the smallest stack and of Unbounded.
MinStackDepth == 8

StackDepths == {Frames(MinStackDepth), Unbounded}

(***************************************************************************)
(* BricksDomain::normalize as a state machine: one action per iteration of *)
(* the while loop (one scan of `lookup`, the rule it applies to            *)
(* `normalized`, and the comparison that ends the iteration).              *)
(***************************************************************************)
\* The rule the body of the for loop applies at index i of list l (in the
\* order of the code: 1, 3, 5, then 2, 4), or 0 when it applies none there.
RuleAt(l, i) ==
    IF is_top(l[i]) THEN 0
    ELSE LET current_brick == l[i].v
         IN IF is_empty_string(current_brick) THEN 1
            ELSE IF current_brick.min = current_brick.max /\ u32_lt(1, current_brick.min) THEN 3
            ELSE IF ~u32_lt(current_brick.min, 1)
                    /\ u32_lt(current_brick.min, current_brick.max) THEN 5
            ELSE IF i + 1 <= Len(l) /\ ~is_top(l[i + 1])
                 THEN LET next_brick == l[i + 1].v
                      IN IF <<current_brick.min, current_brick.max,
                              next_brick.min, next_brick.max>> = <<1, 1, 1, 1>> THEN 2
                         ELSE IF current_brick.sequence = next_brick.sequence THEN 4
                         ELSE 0
                 ELSE 0

\* The index at which the for loop breaks (the first index at which a rule
\* applies), or 0 when the loop runs to the end of `lookup`.
ScanIndex(l) ==
    IF \E i \in 1..Len(l) : RuleAt(l, i) # 0
    THEN CHOOSE i \in 1..Len(l) :
             RuleAt(l, i) # 0 /\ \A j \in 1..(i - 1) : RuleAt(l, j) = 0
    ELSE 0

\* Vec::remove, Vec::insert and the assignment v[i] = x
VecRemove(v, i) == SubSeq(v, 1, i - 1) \o SubSeq(v, i + 1, Len(v))
VecInsert(v, i, x) == SubSeq(v, 1, i - 1) \o <<x>> \o SubSeq(v, i, Len(v))
VecSet(v, i, x) == [v EXCEPT ![i] = x]

\* Step 1 of normalize: normalized.remove(index)
ApplyRule1(v, i) == Ok(VecRemove(v, i))

\* Step 3 of normalize: normalized[index] = transformed brick (or the fault)
ApplyRule3(v, l, i, stack) ==
    LET transformed_brick ==
            transform_brick_with_min_max_equal(l[i].v, l[i].v.min, stack)
    IN IF IsFault(transformed_brick) THEN transformed_brick
       ELSE Ok(VecSet(v, i, Value(transformed_brick.v)))

\* Step 5 of normalize: normalized[index] = new_brick1, insert new_brick2 after it
ApplyRule5(v, l, i, overflow_checks, stack) ==
    LET new_bricks == break_single_brick_into_simpler_bricks(l[i].v, overflow_checks, stack)
    IN IF IsFault(new_bricks) THEN new_bricks
       ELSE Ok(VecInsert(VecSet(v, i, Value(new_bricks.v[1])), i + 1, Value(new_bricks.v[2])))

\* Step 2 of normalize
ApplyRule2(v, l, i) ==
    Ok(VecRemove(VecSet(v, i, Value(merge_bricks_with_bound_one(l[i].v, l[i + 1].v))), i + 1))

\* Step 4 of normalize (or the panic of the addition)
ApplyRule4(v, l, i, overflow_checks) ==
    LET merged_brick == merge_bricks_with_equal_content(l[i].v, l[i + 1].v, overflow_checks)
    IN IF IsFault(merged_brick) THEN merged_brick
       ELSE Ok(VecRemove(VecSet(v, i, Value(merged_brick.v)), i + 1))

\* The end of one iteration of the while loop, `new` being Ok of the vector
\* `normalized` the for loop left, or the fault that aborted the loop.
EndOfIteration(new, r) ==
    /\ rule' = r
    /\ scanned' = scanned \cup {lookup}
    /\ IF new.tag = "Panic"
       THEN pc' = "panic" /\ UNCHANGED <<lookup, normalized>>
       ELSE IF new.tag = "Overflow"
       THEN pc' = "overflow" /\ UNCHANGED <<lookup, normalized>>
       ELSE /\ normalized' = new.v
            /\ IF lookup = new.v
               THEN pc' = "done" /\ lookup' = lookup
               ELSE pc' = "scan" /\ lookup' = new.v
    /\ UNCHANGED <<self, pass, first>>
    /\ UNCHANGED mergeVars
    /\ UNCHANGED callVars

\* normalize, lines 41-44, called on x: unwrap_value panics on
\* BricksDomain::Top, and both vectors start as the list of x.
Enter(x) ==
    /\ self' = x
    /\ IF is_top(x)
       THEN pc' = "panic" /\ lookup' = <<>> /\ normalized' = <<>>
       ELSE pc' = "scan" /\ lookup' = x.v /\ normalized' = x.v
    /\ rule' = 0
    /\ scanned' = {}
    /\ UNCHANGED mergeVars
    /\ UNCHANGED callVars

Rule1 ==
    /\ pc = "scan"
    /\ ScanIndex(lookup) # 0
    /\ RuleAt(lookup, ScanIndex(lookup)) = 1
    /\ EndOfIteration(ApplyRule1(normalized, ScanIndex(lookup)), 1)

Rule3 ==
    /\ pc = "scan"
    /\ ScanIndex(lookup) # 0
    /\ RuleAt(lookup, ScanIndex(lookup)) = 3
    /\ \E stack \in StackDepths :
        EndOfIteration(ApplyRule3(normalized, lookup, ScanIndex(lookup), stack), 3)

Rule5 ==
    /\ pc = "scan"
    /\ ScanIndex(lookup) # 0
    /\ RuleAt(lookup, ScanIndex(lookup)) = 5
    /\ \E overflow_checks \in BOOLEAN, stack \in StackDepths :
        EndOfIteration(ApplyRule5(normalized, lookup, ScanIndex(lookup),
                                  overflow_checks, stack), 5)

Rule2 ==
    /\ pc = "scan"
    /\ ScanIndex(lookup) # 0
    /\ RuleAt(lookup, ScanIndex(lookup)) = 2
    /\ EndOfIteration(ApplyRule2(normalized, lookup, ScanIndex(lookup)), 2)

Rule4 ==
    /\ pc = "scan"
    /\ ScanIndex(lookup) # 0
    /\ RuleAt(lookup, ScanIndex(lookup)) = 4
    /\ \E overflow_checks \in BOOLEAN :
        EndOfIteration(ApplyRule4(normalized, lookup, ScanIndex(lookup), overflow_checks), 4)

\* A scan that applies no rule: lookup == normalized, the loop ends and
\* normalize returns BricksDomain::Value(normalized).
Return ==
    /\ pc = "scan"
    /\ ScanIndex(lookup) = 0
    /\ EndOfIteration(Ok(normalized), 0)

\* The caller normalizes the returned value again: normalize(normalize(x)).
Renormalize ==
    /\ pc = "done"
    /\ pass = 1
    /\ first' = Value(normalized)
    /\ pass' = 2
    /\ Enter(Value(normalized))

(***************************************************************************)
(* Inputs.  The weight of a brick is 1 + max (1 for Top), the weight of a  *)
(* list the sum of the weights of its bricks; the operations are run on    *)
(* every list of bricks (min <= max) up to a bound on the weight.          *)
(***************************************************************************)
\* Bound on the weight of the list normalize is called on.
MaxWeight == 4

\* The candidate strings of the bricks normalize is called on: "", "a", "ab".
NormStrings == {<<>>, <<1>>, <<1, 2>>}
NormSets == SUBSET NormStrings

Weight(d) == IF is_top(d) THEN 1 ELSE 1 + d.v.max

\* The bricks of weight w with a candidate set of `sets`.
BricksOfWeight(w, sets) ==
    (IF w = 1 THEN {Top} ELSE {})
    \cup {Value(Brick(S, m, w - 1)) : S \in sets, m \in 0..(w - 1)}

\* The lists of bricks of total weight n.
RECURSIVE ListsOfWeight(_, _)
ListsOfWeight(n, sets) ==
    IF n = 0 THEN {<<>>}
    ELSE UNION {{<<d>> \o l : d \in BricksOfWeight(w, sets),
                              l \in ListsOfWeight(n - w, sets)} : w \in 1..n}

ListsUpTo(n, sets) == UNION {ListsOfWeight(k, sets) : k \in 0..n}

\* The input of tests::normalizing: ["a"]^{1,1} ["a","b"]^{2,3} ["a","b"]^{0,1}
TestNormalizing ==
    Value(<<Value(Brick({<<1>>}, 1, 1)),
            Value(Brick({<<1>>, <<2>>}, 2, 3)),
            Value(Brick({<<1>>, <<2>>}, 0, 1))>>)

InitNorm ==
    /\ pc = "idle"
    /\ self = None
    /\ lookup = <<>>
    /\ normalized = <<>>
    /\ rule = 0
    /\ scanned = {}
    /\ pass = 0
    /\ first = None
    /\ dom = "bricks"
    /\ a = None /\ b = None /\ c = None
    /\ ab = None /\ ba = None /\ aa = None /\ bc = None
    /\ ab_c = None /\ a_bc = None
    /\ arg = None /\ out = None

\* x.normalize() is called on an input x: BricksDomain::Top, a list of
\* weight <= MaxWeight (empty, or a first brick and the rest), or the list of
\* tests::normalizing.
Normalize ==
    /\ pc = "idle"
    /\ pass' = 1
    /\ first' = None
    /\ \/ \E x \in {Top, Value(<<>>), TestNormalizing} : Enter(x)
       \/ \E w \in 1..MaxWeight : \E d \in BricksOfWeight(w, NormSets) :
          \E l \in ListsUpTo(MaxWeight - w, NormSets) : Enter(Value(<<d>> \o l))

NextNorm ==
    \/ Normalize
    \/ Rule1
    \/ Rule3
    \/ Rule5
    \/ Rule2
    \/ Rule4
    \/ Return
    \/ Renormalize

\* normalize on every input, and once more on every value it returns.
SpecNorm == InitNorm /\ [][NextNorm]_vars

(***************************************************************************)
(* BrickDomain::merge, BricksDomain::pad_list and BricksDomain::merge      *)
(***************************************************************************)
\* A merge of bricks that takes the larger of the two lower bounds.
BrickDomain_merge_MaxOfMins(x, other) ==
    IF is_top(x) \/ is_top(other) THEN Top
    ELSE Value(Brick(x.v.sequence \cup other.v.sequence,
                     Max2(x.v.min, other.v.min),
                     Max2(x.v.max, other.v.max)))

\* impl AbstractDomain for BrickDomain: merge
BrickDomain_merge(x, other) ==
    IF is_top(x) \/ is_top(other) THEN Top
    ELSE Value(Brick(x.v.sequence \cup other.v.sequence,
                     u32_min(x.v.min, other.v.min),
                     u32_max(x.v.max, other.v.max)))

\* The for loop of pad_list from index i on (1-based): Ok(new_list), or Panic
\* when an unwrap_value meets a Top brick (or get(0).unwrap() an empty list).
RECURSIVE PadLoop(_, _, _, _, _, _)
PadLoop(i, short_list, long_list, new_list, empty_bricks_added, len_diff) ==
    IF i > Len(long_list) THEN Ok(new_list)
    ELSE IF empty_bricks_added >= len_diff
    THEN IF short_list = <<>> THEN Panic
         ELSE PadLoop(i + 1, Tail(short_list), long_list,
                      Append(new_list, Head(short_list)), empty_bricks_added, len_diff)
    ELSE IF short_list = <<>>
    THEN PadLoop(i + 1, short_list, long_list,
                 Append(new_list, get_empty_brick), empty_bricks_added + 1, len_diff)
    ELSE IF is_top(Head(short_list)) \/ is_top(long_list[i]) THEN Panic
    ELSE IF Head(short_list).v # long_list[i].v
    THEN PadLoop(i + 1, short_list, long_list,
                 Append(new_list, get_empty_brick), empty_bricks_added + 1, len_diff)
    ELSE PadLoop(i + 1, Tail(short_list), long_list,
                 Append(new_list, Head(short_list)), empty_bricks_added, len_diff)

\* BricksDomain::pad_list: Ok(BricksDomain::Value(new_list)) or Panic.  It is
\* called with the shorter list as self, so the usize len_diff does not wrap.
pad_list(x, other) ==
    IF is_top(x) \/ is_top(other) THEN Panic
    ELSE LET padded == PadLoop(1, x.v, other.v, <<>>, 0, Len(other.v) - Len(x.v))
         IN IF IsFault(padded) THEN padded ELSE Ok(Value(padded.v))

\* impl AbstractDomain for BricksDomain: merge (Panic when pad_list panics)
BricksDomain_merge(x, other) ==
    IF x.tag = "Panic" \/ other.tag = "Panic" THEN Panic
    ELSE IF is_top(x) \/ is_top(other) THEN Top
    ELSE LET self_len == Len(x.v)
             other_len == Len(other.v)
             new_self == IF self_len < other_len THEN pad_list(x, other) ELSE Ok(x)
             new_other == IF other_len < self_len THEN pad_list(other, x) ELSE Ok(other)
         IN IF IsFault(new_self) \/ IsFault(new_other) THEN Panic
            ELSE LET self_list == new_self.v.v
                     other_list == new_other.v.v
                 IN Value([i \in 1..Len(self_list) |->
                              BrickDomain_merge(self_list[i], other_list[i])])

(***************************************************************************)
(* CharacterInclusionDomain                                                *)
(***************************************************************************)
\* CharacterInclusionDomain::Value((certain, possible))
CIValue(certain, possible) == Value([certain |-> certain, possible |-> possible])

\* A merge of character sets that takes the union of the certain characters.
CharacterInclusionDomain_merge_UnionCertain(x, other) ==
    IF is_top(x) \/ is_top(other) THEN Top
    ELSE CIValue(x.v.certain \cup other.v.certain,
                 x.v.possible \cup other.v.possible)

\* impl AbstractDomain for CharacterInclusionDomain: merge
CharacterInclusionDomain_merge(x, other) ==
    IF is_top(x) \/ is_top(other) THEN Top
    ELSE CIValue(x.v.certain \cap other.v.certain,
                 x.v.possible \cup other.v.possible)

(***************************************************************************)
(* StringLengthDomain                                                      *)
(***************************************************************************)
\* StringLengthDomain::Top(bytesize) and StringLengthDomain::Value((lower, upper))
SLTop(bytesize) == [tag |-> "Top", w |-> bytesize]
SLValue(lower, upper) == Value(<<lower, upper>>)

\* impl HasByteSize for StringLengthDomain: bytesize.  The function brings
\* the variants of BitvectorDomain into scope (`use BitvectorDomain::*`) and
\* matches self, a StringLengthDomain, against them: rustc rejects the
\* patterns (E0308, mismatched types), so no call of it gives a value.
bytesize(x) == NotBuilt

\* impl HasTop for StringLengthDomain: top, which calls bytesize
top(x) ==
    LET size == bytesize(x)
    IN IF IsFault(size) THEN size ELSE SLTop(size.v)

\* impl AbstractDomain for StringLengthDomain: merge.  The branch of two
\* different intervals builds Value(min(..), max(..)), two arguments for a
\* variant that takes one pair: rustc rejects it (E0061); the Top branches
\* call top(), and with it bytesize.  No call of merge gives a value.
StringLengthDomain_merge(x, other) == NotBuilt

(***************************************************************************)
(* merge on pairs and triples of operands                                  *)
(***************************************************************************)
\* Bound on the sum of the weights of the bricks lists merged together.
MergeWeight == 5
\* Bound on the byte sizes of the StringLengthDomain operands.
MaxByteSize == 2

\* The characters of the operands: 'a' and 'b'.
Chars == {1, 2}
\* The candidate sets of the bricks merged: {}, {"a"}, {"b"}.
MergeSets == {{}} \cup {{<<ch>>} : ch \in Chars}

CIValues ==
    {Top} \cup {CIValue(p[1], p[2]) :
                    p \in {q \in (SUBSET Chars) \X (SUBSET Chars) : q[1] \subseteq q[2]}}

SLValues ==
    {SLTop(w) : w \in 0..MaxByteSize}
    \cup {SLValue(p[1], p[2]) : p \in {q \in (0..MaxByteSize) \X (0..MaxByteSize) : q[1] <= q[2]}}

BrickValues == UNION {BricksOfWeight(w, MergeSets) : w \in 1..MergeWeight}

\* The BricksDomain operands by weight (BricksDomain::Top has weight 0).
BricksOperands ==
    [n \in 0..MergeWeight |->
        (IF n = 0 THEN {Top} ELSE {}) \cup {Value(l) : l \in ListsOfWeight(n, MergeSets)}]

\* The state merge(x, y), merge(y, x) and merge(x, x) leave for inspection.
Merged(d, x, y, xy, yx, xx) ==
    /\ pc' = "merged"
    /\ dom' = d
    /\ a' = x /\ b' = y
    /\ ab' = xy /\ ba' = yx /\ aa' = xx
    /\ UNCHANGED <<c, bc, ab_c, a_bc>>
    /\ UNCHANGED normVars
    /\ UNCHANGED callVars

MergeCharacterInclusion ==
    /\ pc = "idle"
    /\ \E x, y \in CIValues :
        Merged("ci", x, y, CharacterInclusionDomain_merge(x, y),
               CharacterInclusionDomain_merge(y, x), CharacterInclusionDomain_merge(x, x))

MergeStringLength ==
    /\ pc = "idle"
    /\ \E x, y \in SLValues :
        Merged("sl", x, y, StringLengthDomain_merge(x, y),
               StringLengthDomain_merge(y, x), StringLengthDomain_merge(x, x))

MergeBrick ==
    /\ pc = "idle"
    /\ \E x, y \in BrickValues :
        Merged("brick", x, y, BrickDomain_merge(x, y),
               BrickDomain_merge(y, x), BrickDomain_merge(x, x))

\* merge on every pair of BricksDomain operands of total weight <= MergeWeight
MergeBricks ==
    /\ pc = "idle"
    /\ \E w1 \in 0..MergeWeight : \E w2 \in 0..(MergeWeight - w1) :
       \E x \in BricksOperands[w1], y \in BricksOperands[w2] :
        Merged("bricks", x, y, BricksDomain_merge(x, y),
               BricksDomain_merge(y, x), BricksDomain_merge(x, x))

\* merge(merge(x, y), z) and merge(x, merge(y, z)) on every triple of
\* BricksDomain operands of total weight <= MergeWeight
MergeThree ==
    /\ pc = "idle"
    /\ \E w1 \in 0..MergeWeight : \E w2 \in 0..(MergeWeight - w1) :
       \E w3 \in 0..(MergeWeight - w1 - w2) :
       \E x \in BricksOperands[w1], y \in BricksOperands[w2], z \in BricksOperands[w3] :
        /\ a' = x /\ b' = y /\ c' = z
        /\ ab' = BricksDomain_merge(x, y)
        /\ bc' = BricksDomain_merge(y, z)
        /\ ab_c' = BricksDomain_merge(BricksDomain_merge(x, y), z)
        /\ a_bc' = BricksDomain_merge(x, BricksDomain_merge(y, z))
    /\ pc' = "merged3"
    /\ dom' = "bricks"
    /\ UNCHANGED <<ba, aa>>
    /\ UNCHANGED normVars
    /\ UNCHANGED callVars

\* No operation under way, no operand chosen.
InitMerge == InitNorm

NextMerge ==
    \/ MergeCharacterInclusion
    \/ MergeStringLength
    \/ MergeBrick
    \/ MergeBricks

\* merge of every domain on every pair of operands.
SpecMerge == InitMerge /\ [][NextMerge]_vars

NextAssoc == MergeThree

\* merge of BricksDomain on every triple of operands, in both groupings.
SpecAssoc == InitMerge /\ [][NextAssoc]_vars

(***************************************************************************)
(* Single calls of the functions of Brick and of pad_list                  *)
(***************************************************************************)
\* Bound on the `length` transform_brick_with_min_max_equal is called with
\* and on the max of the brick that is broken.
MaxRepeat == 3

\* brick.transform_brick_with_min_max_equal(length) is called, length >= 1.
Flatten ==
    /\ pc = "idle"
    /\ \E S \in NormSets, length \in 1..MaxRepeat :
       \E stack \in StackDepths :
        /\ arg' = <<Brick(S, length, length), length>>
        /\ out' = transform_brick_with_min_max_equal(Brick(S, length, length), length,
                                                     stack)
    /\ pc' = "flattened"
    /\ UNCHANGED normVars
    /\ UNCHANGED mergeVars

\* brick.break_single_brick_into_simpler_bricks() is called on a brick with
\* min >= 1 and max > min.
Split ==
    /\ pc = "idle"
    /\ \E S \in NormSets, min \in 1..MaxRepeat, max \in 1..MaxRepeat :
       \E overflow_checks \in BOOLEAN, stack \in StackDepths :
        /\ max > min
        /\ arg' = <<Brick(S, min, max)>>
        /\ out' = break_single_brick_into_simpler_bricks(Brick(S, min, max),
                                                         overflow_checks, stack)
    /\ pc' = "split"
    /\ UNCHANGED normVars
    /\ UNCHANGED mergeVars

\* short.pad_list(&long) is called as merge calls it: on two lists, the first
\* shorter than the second (of total weight <= MergeWeight).
Pad ==
    /\ pc = "idle"
    /\ \E w1 \in 0..MergeWeight : \E w2 \in 0..(MergeWeight - w1) :
       \E x \in BricksOperands[w1], y \in BricksOperands[w2] :
        /\ ~is_top(x) /\ ~is_top(y)
        /\ Len(x.v) < Len(y.v)
        /\ arg' = <<x, y>>
        /\ out' = pad_list(x, y)
    /\ pc' = "padded"
    /\ UNCHANGED normVars
    /\ UNCHANGED mergeVars

NextBrick ==
    \/ Flatten
    \/ Split
    \/ Pad

\* One call of flatten, of split or of pad_list on every input.
SpecBrick == InitNorm /\ [][NextBrick]_vars

(***************************************************************************)
(* Sequences of merges and of rule applications on one value               *)
(***************************************************************************)
\* Bound on the length of the bricks lists and of their strings.
WfMaxLen == 2
\* Bound on the distance of min and max from 0 and from u32::MAX.
WfMaxCount == 2

\* The bricks the sequences start from and merge with: min <= max, also with
\* max = u32::MAX.
WfBrickValues ==
    {Top} \cup {Value(Brick({<<1>>}, p[1], p[2])) :
                    p \in {q \in (0..1) \X {0, 1, U32_MAX} : ~u32_lt(q[2], q[1])}}

WfBricksValues ==
    {Top} \cup {Value(l) : l \in UNION {[1..n -> WfBrickValues] : n \in 0..WfMaxLen}}

\* The values of domain d the sequences start from and merge with, all of
\* which satisfy the invariant of their domain.
WfValues(d) ==
    CASE d = "ci" -> CIValues
      [] d = "sl" -> SLValues
      [] d = "brick" -> WfBrickValues
      [] d = "bricks" -> WfBricksValues

\* AbstractDomain::merge of domain d
Merge(d, x, y) ==
    CASE d = "ci" -> CharacterInclusionDomain_merge(x, y)
      [] d = "sl" -> StringLengthDomain_merge(x, y)
      [] d = "brick" -> BrickDomain_merge(x, y)
      [] d = "bricks" -> BricksDomain_merge(x, y)

\* One iteration of the loop of normalize on the list l: Ok of the list the
\* rule of the scan leaves, or the fault of the rule.
ApplyRule(l, overflow_checks, stack) ==
    LET i == ScanIndex(l)
        r == RuleAt(l, i)
    IN CASE r = 1 -> ApplyRule1(l, i)
         [] r = 3 -> ApplyRule3(l, l, i, stack)
         [] r = 5 -> ApplyRule5(l, l, i, overflow_checks, stack)
         [] r = 2 -> ApplyRule2(l, l, i)
         [] r = 4 -> ApplyRule4(l, l, i, overflow_checks)

\* The bricks within the bounds of the model.
CappedBrick(d) ==
    IF is_top(d) THEN TRUE
    ELSE /\ \A str \in d.v.sequence : Len(str) <= WfMaxLen
         /\ d.v.min >= 0 /\ d.v.min <= WfMaxCount
         /\ IF d.v.max >= 0 THEN d.v.max <= WfMaxCount
            ELSE d.v.max >= U32_MAX - WfMaxCount

\* The values of domain d within the bounds of the model.
Capped(d, x) ==
    CASE d = "bricks" -> IF is_top(x) THEN TRUE
                         ELSE /\ Len(x.v) <= WfMaxLen + 1
                              /\ \A i \in 1..Len(x.v) : CappedBrick(x.v[i])
      [] d = "brick" -> CappedBrick(x)
      [] OTHER -> TRUE

\* A value of some domain is constructed.
WfStart ==
    /\ pc = "idle"
    /\ \E d \in {"ci", "sl", "brick", "bricks"} : \E x \in WfValues(d) :
        /\ dom' = d
        /\ out' = x
        /\ arg' = [op |-> "new"]
    /\ pc' = "wf"
    /\ UNCHANGED normVars
    /\ UNCHANGED <<a, b, c, ab, ba, aa, bc, ab_c, a_bc>>

\* The value is merged with another value of its domain (on either side).
WfMerge ==
    /\ pc = "wf"
    /\ \E y \in WfValues(dom) : \E r \in {Merge(dom, out, y), Merge(dom, y, out)} :
        /\ ~IsFault(r)
        /\ Capped(dom, r)
        /\ out' = r
        /\ arg' = [op |-> "merge", other |-> y]
    /\ UNCHANGED pc
    /\ UNCHANGED normVars
    /\ UNCHANGED mergeVars

\* The loop of normalize runs one iteration on the bricks list: the rule of
\* the scan is applied, in a build with or without overflow checks, on any
\* stack.
WfRule ==
    /\ pc = "wf"
    /\ dom = "bricks"
    /\ ~is_top(out)
    /\ ScanIndex(out.v) # 0
    /\ \E overflow_checks \in BOOLEAN, stack \in StackDepths :
        LET new == ApplyRule(out.v, overflow_checks, stack)
        IN /\ new.tag = "Ok"
           /\ Capped(dom, Value(new.v))
           /\ out' = Value(new.v)
           /\ arg' = [op |-> "rule", rule |-> RuleAt(out.v, ScanIndex(out.v)),
                      overflow_checks |-> overflow_checks]
    /\ UNCHANGED pc
    /\ UNCHANGED normVars
    /\ UNCHANGED mergeVars

NextWf ==
    \/ WfStart
    \/ WfMerge
    \/ WfRule

\* Every sequence of merges and of rule applications from every value.
SpecWf == InitNorm /\ [][NextWf]_vars

(***************************************************************************)
(* State<T>: the abstract strings of the registers and of the memory cells *)
(***************************************************************************)
\* struct State { register, pointer }: two maps (functions on the keys held)
State(register, pointer) == [register |-> register, pointer |-> pointer]

\* State::new
State_new == State(<<>>, <<>>)

\* impl AbstractDomain for State<T>: merge, whose body is todo!(): the call
\* panics ("not yet implemented") on every pair of states.
State_merge(s, other) == Panic

\* The register variables and the (pointer, offset) cells of the states.
Registers == {"RAX", "RBX"}
Cells == {<<"RSP", 8>>}
\* The values T of the states: CharacterInclusionDomain values.
StateDomainValues == {Top, CIValue({}, {1}), CIValue({1}, {1})}

\* The maps from some of the keys to values.
PartialMaps(keys, values) == UNION {[D -> values] : D \in SUBSET keys}

States ==
    {State(r, p) : r \in PartialMaps(Registers, StateDomainValues),
                   p \in PartialMaps(Cells, StateDomainValues)}

\* s1.merge(&s2) is called on two states.
MergeState ==
    /\ pc = "idle"
    /\ \E s1, s2 \in States :
        /\ arg' = <<s1, s2>>
        /\ out' = State_merge(s1, s2)
    /\ pc' = "merged_state"
    /\ UNCHANGED normVars
    /\ UNCHANGED mergeVars

NextState == MergeState

\* merge of State on every pair of states.
SpecState == InitNorm /\ [][NextState]_vars

(***************************************************************************)
(* The strings a brick and a list of bricks denote (the doc comment of     *)
(* BrickDomain: [{"mo","de"}]^{1,2} = {mo, de, momo, dede, mode, demo}).   *)
(***************************************************************************)
\* All concatenations of exactly k elements of S (with repetition).
RECURSIVE ConcatK(_, _)
ConcatK(S, k) ==
    IF k = 0 THEN {<<>>}
    ELSE {x \o s : x \in ConcatK(S, k - 1), s \in S}

DenoteBrick(brick) == UNION {ConcatK(brick.sequence, k) : k \in brick.min..brick.max}

\* The strings a list without Top bricks denotes.
RECURSIVE DenoteList(_)
DenoteList(l) ==
    IF l = <<>> THEN {<<>>}
    ELSE {x \o y : x \in DenoteBrick(Head(l).v), y \in DenoteList(Tail(l))}

HasTopBrick(l) == \E i \in 1..Len(l) : is_top(l[i])

(***************************************************************************)
(* Claims about normalize                                                  *)
(***************************************************************************)
\* The call under way has aborted: a panic, or a recursion without end.
Aborted == pc \in {"panic", "overflow"}

\* The loop is about to scan a list it has scanned before in this call.  The
\* loop is deterministic and its state at the head of an iteration is the
\* list (lookup = normalized there), so from such a state it never ends.
Rescans == pc = "scan" /\ lookup \in scanned

\* The bricks whose candidate set is not empty and holds no empty string.
PlainBrick(d) == is_top(d) \/ (d.v.sequence # {} /\ <<>> \notin d.v.sequence)
PlainList(l) == \A i \in 1..Len(l) : PlainBrick(l[i])

\* C1: normalize terminates on every non-Top bricks list: the loop reaches a
\* scan in which no rule applies and returns, without looping forever and
\* without aborting.  Stated for the lists whose candidate sets are not empty
\* and hold no empty string.
C1_NormalizeTerminates ==
    (pass = 1 /\ ~is_top(self) /\ PlainList(self.v)) => (~Aborted /\ ~Rescans)

\* normalize aborts on no non-Top bricks list.
NormalizeNeverAborts == (pass = 1 /\ ~is_top(self)) => ~Aborted

\* C2: normalization never increases the denoted string set: every string
\* denoted by the list normalize returns is denoted by the list it was called
\* on (stated for the lists without Top bricks, whose denotation is finite).
C2_NormalizeSound ==
    (pc = "done" /\ pass = 1 /\ ~HasTopBrick(self.v))
        => DenoteList(normalized) \subseteq DenoteList(self.v)

\* C3: normalization is idempotent: for every non-Top bricks value x both
\* normalize(x) and normalize(normalize(x)) return, and they return the same
\* value.  Stated for the lists whose candidate sets are not empty and hold
\* no empty string.
C3_NormalizeIdempotent ==
    (pass >= 1 /\ ~is_top(self) /\ PlainList(self.v)) =>
        /\ ~Aborted
        /\ ~Rescans
        /\ (pc = "done" /\ pass = 2) => Value(normalized) = first

\* Whenever normalize(x) returns, normalize(normalize(x)) returns (at once,
\* applying no rule) the same value.
C3_IdempotentWhenReturns ==
    pass = 2 => /\ pc \in {"scan", "done"}
                /\ rule = 0
                /\ pc = "done" => Value(normalized) = first

\* The normal form of the doc comment of normalize: [T]^{1,1} or [T]^{0,max>0}.
InNormalForm(d) ==
    \/ is_top(d)
    \/ d.v.min = 1 /\ d.v.max = 1
    \/ d.v.min = 0 /\ d.v.max > 0

\* C4: the list normalize returns is in normal form: each of its non-Top
\* bricks is [T]^{1,1} or [T]^{0,max} with max > 0.
C4_ResultInNormalForm ==
    (pc = "done" /\ pass = 1)
        => \A i \in 1..Len(normalized) : InNormalForm(normalized[i])

\* What the returned list does satisfy: each of its non-Top bricks is in
\* normal form or is [T]^{0,0} with a candidate set T that is not empty.
C4_NormalFormOrZeroBrick ==
    (pc = "done" /\ pass = 1)
        => \A i \in 1..Len(normalized) :
              \/ InNormalForm(normalized[i])
              \/ normalized[i].v.max = 0 /\ normalized[i].v.sequence # {}

(***************************************************************************)
(* Claims about merge                                                      *)
(***************************************************************************)
\* C5: merge is commutative in every domain: merge(a,b) == merge(b,a) for
\* all values a, b of CharacterInclusionDomain, StringLengthDomain (Top of
\* any byte widths, and intervals), BrickDomain and BricksDomain: both
\* calls have an outcome, and the same one.
C5_MergeCommutative == pc = "merged" => (ab.tag # "NotBuilt" /\ ab = ba)

\* What does hold: merge is commutative in CharacterInclusionDomain,
\* BrickDomain and BricksDomain.
C5_CommutativeButStringLength == (pc = "merged" /\ dom # "sl") => ab = ba

\* The operands are bricks lists (not BricksDomain::Top) without Top bricks.
TopFree(x) == x.tag = "Value" /\ ~HasTopBrick(x.v)

\* C6: BricksDomain::merge is associative: for all non-Top bricks lists a, b,
\* c, merge(merge(a,b),c) == merge(a,merge(b,c)) (stated for the lists
\* without Top bricks, on which no merge panics).
C6_MergeAssociative ==
    (pc = "merged3" /\ TopFree(a) /\ TopFree(b) /\ TopFree(c)) => ab_c = a_bc

\* C7: merge is an upper bound of its operands: every string denoted by the
\* bricks list a (by the brick a) and every string denoted by b is denoted
\* by merge(a,b), for lists and bricks without Top.
C7_MergeUpperBound ==
    /\ (pc = "merged" /\ dom = "bricks" /\ TopFree(a) /\ TopFree(b))
          => /\ ab.tag = "Value"
             /\ DenoteList(a.v) \cup DenoteList(b.v) \subseteq DenoteList(ab.v)
    /\ (pc = "merged" /\ dom = "brick" /\ ~is_top(a) /\ ~is_top(b))
          => /\ ab.tag = "Value"
             /\ DenoteBrick(a.v) \cup DenoteBrick(b.v) \subseteq DenoteBrick(ab.v)

\* C7 happens: a list of one brick that denotes several strings was merged
\* with a longer list that ends with that brick, so it was padded in front,
\* and the result denotes a string neither operand's first brick alone gives.
C7_Witness ==
    /\ pc = "merged" /\ dom = "bricks" /\ TopFree(a) /\ TopFree(b)
    /\ Len(a.v) = 1 /\ Len(b.v) = 2
    /\ a.v[1] = b.v[2] /\ a.v[1] # b.v[1]
    /\ Cardinality(DenoteList(a.v)) > 1
    /\ ab.tag = "Value" /\ Len(ab.v) = 2
    /\ ab.v[2] = a.v[1]
    /\ DenoteList(a.v) \cup DenoteList(b.v) \subseteq DenoteList(ab.v)

\* C8: merge is idempotent in every domain: merge(a,a) == a.
C8_MergeIdempotent == pc = "merged" => aa = a

\* What does hold: merge is idempotent in CharacterInclusionDomain,
\* BrickDomain and BricksDomain.
C8_IdempotentButStringLength == (pc = "merged" /\ dom # "sl") => aa = a

\* C9: Top is absorbing for merge in every domain: if either operand is Top
\* the result is Top, and for StringLengthDomain the resulting Top carries
\* the byte width of an operand that is Top.
C9_TopAbsorbing ==
    (pc = "merged" /\ (is_top(a) \/ is_top(b)))
        => /\ is_top(ab)
           /\ dom = "sl" => \/ is_top(a) /\ ab.w = a.w
                            \/ is_top(b) /\ ab.w = b.w

\* What does hold: Top is absorbing in CharacterInclusionDomain, BrickDomain
\* and BricksDomain.
C9_TopAbsorbingButStringLength ==
    (pc = "merged" /\ dom # "sl" /\ (is_top(a) \/ is_top(b))) => is_top(ab)

\* C10: merge of two non-Top BricksDomain values (lists of any lengths, also
\* with Top bricks) returns a Value list as long as the longer operand, whose
\* element i is BrickDomain::merge of the elements i of the padded lists.
C10_MergeLength ==
    (pc = "merged" /\ dom = "bricks" /\ ~is_top(a) /\ ~is_top(b))
        => /\ ab.tag = "Value"
           /\ Len(ab.v) = Max2(Len(a.v), Len(b.v))

\* What does hold: the same, unless the lists differ in length and pad_list
\* unwraps a Top brick (then merge panics).
C10_MergeLengthOrPanic ==
    (pc = "merged" /\ dom = "bricks" /\ ~is_top(a) /\ ~is_top(b))
        => \/ /\ ab.tag = "Value"
              /\ Len(ab.v) = Max2(Len(a.v), Len(b.v))
           \/ /\ ab = Panic
              /\ Len(a.v) # Len(b.v)
              /\ HasTopBrick(a.v) \/ HasTopBrick(b.v)

\* C11: CharacterInclusionDomain::merge of two non-Top values (certain_a,
\* possible_a) and (certain_b, possible_b) returns the Value of the
\* intersection of the certain sets and the union of the possible sets.
C11_CharacterInclusionMerge ==
    (pc = "merged" /\ dom = "ci" /\ ~is_top(a) /\ ~is_top(b))
        => /\ ab.tag = "Value"
           /\ ab.v.certain = {ch \in Chars : ch \in a.v.certain /\ ch \in b.v.certain}
           /\ ab.v.possible = {ch \in Chars : ch \in a.v.possible \/ ch \in b.v.possible}

\* C11 happens: two values with different certain sets that share a certain
\* character were merged, and the possible set grew.
C11_Witness ==
    /\ pc = "merged" /\ dom = "ci" /\ ~is_top(a) /\ ~is_top(b)
    /\ a.v.certain # b.v.certain
    /\ ab.tag = "Value" /\ ab.v.certain # {}
    /\ ab.v.possible # a.v.possible

\* C12: StringLengthDomain::merge of two intervals returns the first one
\* unchanged when they are equal and otherwise [min of the lower bounds, max
\* of the upper bounds]; bytesize() of an interval is its upper bound and
\* bytesize() of Top(w) is w.
C12_StringLengthMerge ==
    (pc = "merged" /\ dom = "sl") =>
        /\ (a.tag = "Value" /\ b.tag = "Value") =>
              /\ ab.tag = "Value"
              /\ a.v = b.v => ab = a
              /\ a.v # b.v =>
                    /\ ab.v[1] <= a.v[1] /\ ab.v[1] <= b.v[1] /\ ab.v[1] \in {a.v[1], b.v[1]}
                    /\ ab.v[2] >= a.v[2] /\ ab.v[2] >= b.v[2] /\ ab.v[2] \in {a.v[2], b.v[2]}
        /\ a.tag = "Value" => bytesize(a) = Ok(a.v[2])
        /\ a.tag = "Top" => bytesize(a) = Ok(a.w)

\* What the code does: no call of StringLengthDomain::merge or of bytesize
\* gives a value.
C12_StringLengthNotBuilt ==
    (pc = "merged" /\ dom = "sl") =>
        /\ ab = NotBuilt /\ ba = NotBuilt /\ aa = NotBuilt
        /\ bytesize(a) = NotBuilt /\ top(a) = NotBuilt

\* The map m holds exactly the keys that m1 and m2 both hold, each with
\* T::merge of the two values.
KeepsCommonKeys(m, m1, m2) ==
    /\ DOMAIN m = DOMAIN m1 \cap DOMAIN m2
    /\ \A k \in DOMAIN m : m[k] = CharacterInclusionDomain_merge(m1[k], m2[k])

\* C13: State merge keeps exactly the common keys: in both maps (registers
\* and memory cells) a key held by one state only is not in merge(s1, s2),
\* and a key held by both maps to T::merge of the two values.
C13_StateMergeCommonKeys ==
    pc = "merged_state" =>
        /\ out.tag = "Ok"
        /\ KeepsCommonKeys(out.v.register, arg[1].register, arg[2].register)
        /\ KeepsCommonKeys(out.v.pointer, arg[1].pointer, arg[2].pointer)

\* What the code does: State::merge panics on every pair of states.
C13_StateMergePanics == pc = "merged_state" => out = Panic

\* C14: flattening (transform_brick_with_min_max_equal with length k >= 1) a
\* brick with candidate set S returns the brick with min = max = 1 whose
\* candidate set is the set of all concatenations of exactly k elements of
\* S, also when S has strings of several characters.  Stated for the
\* candidate sets that are not empty and do not hold the empty string.
C14_FlattenExact ==
    (pc = "flattened" /\ PlainBrick(Value(arg[1]))) =>
        /\ out.tag = "Ok"
        /\ out.v = Brick(ConcatK(arg[1].sequence, arg[2]), 1, 1)

\* Flattening returns a brick for every candidate set, also for the empty
\* set and for the sets that hold the empty string.
C14_FlattenReturns == pc = "flattened" => out.tag = "Ok"

\* The candidate sets whose strings all have one character (and are some).
CharacterSet(S) == S # {} /\ \A str \in S : Len(str) = 1

\* What does hold: flattening is exact when every candidate string has
\* exactly one character.
C14_FlattenExactOnCharacters ==
    (pc = "flattened" /\ CharacterSet(arg[1].sequence)) =>
        /\ out.tag = "Ok"
        /\ out.v = Brick(ConcatK(arg[1].sequence, arg[2]), 1, 1)

\* C15: splitting (break_single_brick_into_simpler_bricks) a brick
\* [S]^{min,max} with min >= 1 and max > min returns the pair
\* B1 = [all concatenations of exactly min elements of S]^{1,1} and
\* B2 = [S]^{0,max-min}.  Stated for the candidate sets that are not empty
\* and do not hold the empty string.
C15_SplitExact ==
    (pc = "split" /\ PlainBrick(Value(arg[1]))) =>
        /\ out.tag = "Ok"
        /\ out.v[1] = Brick(ConcatK(arg[1].sequence, arg[1].min), 1, 1)
        /\ out.v[2] = Brick(arg[1].sequence, 0, arg[1].max - arg[1].min)

\* What does hold: the same when every candidate string has one character.
C15_SplitExactOnCharacters ==
    (pc = "split" /\ CharacterSet(arg[1].sequence)) =>
        /\ out.tag = "Ok"
        /\ out.v[1] = Brick(ConcatK(arg[1].sequence, arg[1].min), 1, 1)
        /\ out.v[2] = Brick(arg[1].sequence, 0, arg[1].max - arg[1].min)

\* The other half of C15: an iteration of normalize that applies rule 5 at
\* index i replaces the brick there by the two bricks of the split, the
\* second right after the first, and leaves the rest of the list as it is.
C15_NormalizeSplitsInPlace ==
    [][(pc = "scan" /\ rule' = 5 /\ pc' = "scan") =>
         LET i == ScanIndex(lookup)
             new_bricks == break_single_brick_into_simpler_bricks(lookup[i].v, TRUE, Unbounded)
         IN normalized' = SubSeq(lookup, 1, i - 1)
                            \o <<Value(new_bricks.v[1]), Value(new_bricks.v[2])>>
                            \o SubSeq(lookup, i + 1, Len(lookup))]_vars

\* The list `padded` is `short` with an empty string brick inserted at each
\* position of P, every one of them at a position where the next element of
\* `short` not yet placed differs from the element of `long` there, or where
\* `short` is used up.
PaddingAt(P, short, long, padded) ==
    /\ Cardinality(P) = Len(long) - Len(short)
    /\ \A i \in 1..Len(long) :
          LET k == i - Cardinality({q \in P : q < i})
          IN IF i \in P
             THEN /\ padded[i] = get_empty_brick
                  /\ k > Len(short) \/ short[k] # long[i]
             ELSE /\ k <= Len(short)
                  /\ padded[i] = short[k]

\* C16: pad_list of a shorter bricks list (a Value, not Top) against a longer
\* one returns a list as long as the longer one that is the shorter list, its
\* elements in their order, plus exactly len(long) - len(short) empty string
\* bricks, each inserted at a position i where the next unconsumed element of
\* the shorter list differs from the longer list's element at i, or where the
\* shorter list is exhausted.
C16_PadList ==
    pc = "padded" =>
        /\ out.tag = "Ok"
        /\ out.v.tag = "Value"
        /\ Len(out.v.v) = Len(arg[2].v)
        /\ \E P \in SUBSET (1..Len(arg[2].v)) :
              PaddingAt(P, arg[1].v, arg[2].v, out.v.v)

\* What the code does: the padding of C16 whenever pad_list returns, which it
\* does on all lists without Top bricks; on the other lists it may panic in
\* unwrap_value.
C16_PadListOrPanic ==
    pc = "padded" =>
        /\ (TopFree(arg[1]) /\ TopFree(arg[2])) => out.tag = "Ok"
        /\ out.tag = "Ok" =>
              /\ out.v.tag = "Value"
              /\ Len(out.v.v) = Len(arg[2].v)
              /\ \E P \in SUBSET (1..Len(arg[2].v)) :
                    PaddingAt(P, arg[1].v, arg[2].v, out.v.v)
        /\ out.tag # "Ok" => out = Panic

\* The invariant of the domains: min <= max for a brick, certain \subseteq
\* possible for a character inclusion value, lower <= upper for an interval.
WellFormedBrick(d) == is_top(d) \/ ~u32_lt(d.v.max, d.v.min)

WellFormed(d, x) ==
    CASE d = "ci" -> is_top(x) \/ x.v.certain \subseteq x.v.possible
      [] d = "sl" -> x.tag = "Top" \/ x.v[1] <= x.v[2]
      [] d = "brick" -> WellFormedBrick(x)
      [] d = "bricks" -> is_top(x) \/ \A i \in 1..Len(x.v) : WellFormedBrick(x.v[i])

\* C17: well-formedness is preserved by every operation: from values that
\* satisfy the invariant of their domain, every sequence of merges and of
\* applications of the rules 1-5 yields only values that satisfy it.
C17_WellFormednessPreserved == pc = "wf" => WellFormed(dom, out)

\* The next iteration of normalize on l applies rule 4 to two bricks whose
\* mins or maxes do not add up within u32.
Rule4Overflows(l) ==
    /\ ScanIndex(l) # 0
    /\ RuleAt(l, ScanIndex(l)) = 4
    /\ \/ u32_add_overflows(l[ScanIndex(l)].v.min, l[ScanIndex(l) + 1].v.min)
       \/ u32_add_overflows(l[ScanIndex(l)].v.max, l[ScanIndex(l) + 1].v.max)

\* What does hold: a merge or a rule application on a well-formed value
\* yields a well-formed value, unless it is rule 4 and its sum overflows.
C17_PreservedUnlessOverflow ==
    [][(pc = "wf" /\ WellFormed(dom, out)
          /\ ~(arg'.op = "rule" /\ Rule4Overflows(out.v)))
         => WellFormed(dom', out')]_vars

====
